---- MODULE Spec2Model ----
(***************************************************************************)
(* Model of src/cli/onefuzz/ssh.py: the temporary key file (temp_file),    *)
(* the ssh argument vector (build_ssh_command_args), the scope that hands  *)
(* the vector to its caller (build_ssh_command) and the scope that runs    *)
(* ssh in blocking or managed mode (ssh_connect).                          *)
(*                                                                         *)
(* The program is single threaded; one run of the model is one use of      *)
(* `with ssh_connect(...) as value: <body>`.  The ssh child process is the *)
(* only concurrent party: it may exit by itself at any moment.             *)
(*                                                                         *)
(* Optional[T] values are sequences: <<>> is None, <<x>> is the value x.   *)
(***************************************************************************)
EXTENDS Integers, Sequences, FiniteSets, TLC

VARIABLES
    \* parameters of ssh_connect and the ambient state the code reads
    ip, private_key_path, private_key, proxy, call, port, command,
    log_level, system,
    \* control
    pc,             \* position of the program
    exc,            \* exception in flight while the scopes unwind
    result,         \* how the `with ssh_connect(...)` statement ended
    \* temp_file
    tf,             \* state of the temp_file scope
    tmpdir,         \* the temporary directory exists
    key_file,       \* the file <tmpdir>/id_rsa exists
    mode,           \* permission bits of the key file
    \* build_ssh_command
    bsc_key_path,   \* its local private_key_path (rebound by `as`)
    yields,         \* number of argument vectors it has yielded
    cmd,            \* the vector ssh_connect received
    \* ssh_connect and the child process
    child,          \* "none", "running" or "exited"
    child_cmd,      \* the vector the child was started with
    exit_status,    \* the status the operating system holds for the child
    returncode,     \* Popen.returncode: None until the child is reaped
    pipes,          \* stdin/stdout/stderr pipes of the Popen handle
    handed,         \* the value yielded to the caller's body
    body,           \* state of the caller's body
    cleanup_kills,  \* calls of ssh.kill() made by ssh_connect itself
    body_kills      \* calls of ssh.kill() made by the caller's body

inputs == <<ip, private_key_path, private_key, proxy, call, port, command,
            log_level, system>>
files == <<tf, tmpdir, key_file, mode>>
proc == <<child, child_cmd, exit_status, returncode, pipes>>
vars == <<inputs, pc, exc, result, files, bsc_key_path, yields, cmd, proc,
          handed, body, cleanup_kills, body_kills>>

----------------------------------------------------------------------------
(* Bounds of the model *)

MaxExitCode == 1
MaxBodyKills == 1

(* Values of the program *)

DEBUG == 10
SIGKILL == 9

None == <<>>
Some(x) == <<x>>

\* Python truthiness of an Optional[str] / Optional[int]
TruthyStr(o) == o # None /\ o[1] # ""
TruthyInt(o) == o # None /\ o[1] # 0

Hosts == {"10.0.0.5"}
KeyContents == {None, Some(""), Some("SECRET")}
KeyPaths == {None, Some(""), Some("/home/me/key")}
Proxies == {None, Some(""), Some("8080:localhost:80")}
Ports == {None, Some(0), Some(22), Some(2222)}
Commands == {None, Some(""), Some("ls")}
LogLevels == {0, DEBUG, 20, 30}
Systems == {"Linux", "Windows"}
ExitCodes == 0 .. MaxExitCode
BodyExceptions == {"Exception", "KeyboardInterrupt"}

NoValue == [kind |-> "none", value |-> 0]

----------------------------------------------------------------------------
(* build_ssh_command_args *)

Digit(d) ==
    CASE d = 0 -> "0" [] d = 1 -> "1" [] d = 2 -> "2" [] d = 3 -> "3"
      [] d = 4 -> "4" [] d = 5 -> "5" [] d = 6 -> "6" [] d = 7 -> "7"
      [] d = 8 -> "8" [] d = 9 -> "9"

RECURSIVE str(_)
str(n) ==
    IF n < 0 THEN "-" \o str(0 - n)
    ELSE IF n < 10 THEN Digit(n)
    ELSE str(n \div 10) \o Digit(n % 10)

build_ssh_command_args_swapped(host, key_path, fwd, prt, remote, level) ==
    LET c0 == <<"ssh", "onefuzz@" \o host,
                "-o", "UserKnownHostsFile=/dev/null",
                "-o", "StrictHostKeyChecking=no">>
        c1 == IF TruthyStr(key_path) THEN c0 \o <<"-i", key_path[1]>> ELSE c0
        c2 == IF TruthyInt(prt) THEN c1 \o <<"-p", str(prt[1])>> ELSE c1
        c3 == IF TruthyStr(fwd) THEN c2 \o <<"-L", fwd[1]>> ELSE c2
        c4 == IF level <= DEBUG THEN c3 \o <<"-v">> ELSE c3
    IN  IF TruthyStr(remote) THEN c4 \o <<remote[1]>> ELSE c4

build_ssh_command_args_options_first(host, key_path, fwd, prt, remote, level) ==
    LET c0 == <<"ssh",
                "-o", "StrictHostKeyChecking=no",
                "-o", "UserKnownHostsFile=/dev/null",
                "onefuzz@" \o host>>
        c1 == IF TruthyStr(key_path) THEN c0 \o <<"-i", key_path[1]>> ELSE c0
        c2 == IF TruthyStr(fwd) THEN c1 \o <<"-L", fwd[1]>> ELSE c1
        c3 == IF TruthyInt(prt) THEN c2 \o <<"-p", str(prt[1])>> ELSE c2
        c4 == IF level <= DEBUG THEN c3 \o <<"-v">> ELSE c3
    IN  IF TruthyStr(remote) THEN c4 \o <<remote[1]>> ELSE c4

build_ssh_command_args_below_debug(host, key_path, fwd, prt, remote, level) ==
    LET c0 == <<"ssh", "onefuzz@" \o host,
                "-o", "UserKnownHostsFile=/dev/null",
                "-o", "StrictHostKeyChecking=no">>
        c1 == IF TruthyStr(key_path) THEN c0 \o <<"-i", key_path[1]>> ELSE c0
        c2 == IF TruthyStr(fwd) THEN c1 \o <<"-L", fwd[1]>> ELSE c1
        c3 == IF TruthyInt(prt) THEN c2 \o <<"-p", str(prt[1])>> ELSE c2
        c4 == IF level < DEBUG THEN c3 \o <<"-v">> ELSE c3
    IN  IF TruthyStr(remote) THEN c4 \o <<remote[1]>> ELSE c4

build_ssh_command_args(host, key_path, fwd, prt, remote, level) ==
    LET c0 == <<"ssh", "onefuzz@" \o host,
                "-o", "UserKnownHostsFile=/dev/null",
                "-o", "StrictHostKeyChecking=no">>
        c1 == IF TruthyStr(key_path) THEN c0 \o <<"-i", key_path[1]>> ELSE c0
        c2 == IF TruthyStr(fwd) THEN c1 \o <<"-L", fwd[1]>> ELSE c1
        c3 == IF TruthyInt(prt) THEN c2 \o <<"-p", str(prt[1])>> ELSE c2
        c4 == IF level <= DEBUG THEN c3 \o <<"-v">> ELSE c3
    IN  IF TruthyStr(remote) THEN c4 \o <<remote[1]>> ELSE c4

----------------------------------------------------------------------------
(* State after the call ssh_connect(...) and before the scope is entered *)

Init ==
    /\ ip \in Hosts
    /\ private_key_path \in KeyPaths
    /\ private_key \in KeyContents
    /\ proxy \in Proxies
    /\ call \in BOOLEAN
    /\ port \in Ports
    /\ command \in Commands
    /\ log_level \in LogLevels
    /\ system \in Systems
    /\ pc = "start"
    /\ exc = "none"
    /\ result = "pending"
    /\ tf = "unused"
    /\ tmpdir = FALSE
    /\ key_file = FALSE
    /\ mode = "none"
    /\ bsc_key_path = private_key_path
    /\ yields = 0
    /\ cmd = <<>>
    /\ child = "none"
    /\ child_cmd = <<>>
    /\ exit_status = None
    /\ returncode = None
    /\ pipes = "none"
    /\ handed = NoValue
    /\ body = "notrun"
    /\ cleanup_kills = 0
    /\ body_kills = 0

----------------------------------------------------------------------------
(* subprocess.Popen.kill, as ssh.kill() uses it: a child whose status was  *)
(* already collected, or that has exited and is collected by the poll, is  *)
(* not signalled; a running child is terminated by SIGKILL.  The result is *)
(* the new state of the child and the error raised, if any.                *)

KillUnchecked(c, status, rc) ==
    IF c = "running"
    THEN [child |-> "exited", exit_status |-> Some(0 - SIGKILL),
          returncode |-> rc, error |-> "none"]
    ELSE [child |-> c, exit_status |-> status, returncode |-> rc,
          error |-> "ProcessLookupError"]

Kill(c, status, rc) ==
    IF rc # None
    THEN [child |-> c, exit_status |-> status, returncode |-> rc,
          error |-> "none"]
    ELSE IF c = "exited"
    THEN [child |-> c, exit_status |-> status, returncode |-> status,
          error |-> "none"]
    ELSE [child |-> "exited", exit_status |-> Some(0 - SIGKILL),
          returncode |-> rc, error |-> "none"]

----------------------------------------------------------------------------
(* temp_file("id_rsa", private_key, set_owner_only=True) *)

filename == "id_rsa"
set_owner_only == TRUE
TmpDirName == "/tmp/tmpdir0"
full_path == TmpDirName \o "/" \o filename

\* tempfile.TemporaryDirectory.__exit__: the directory and all in it go
TemporaryDirectoryLeak == UNCHANGED <<tmpdir, key_file, mode>>

TemporaryDirectoryCleanup ==
    /\ tmpdir' = FALSE
    /\ key_file' = FALSE
    /\ mode' = "none"

\* (variant: the error is caught and temp_file carries on to its yield)
TempFileAbortSwallowed(error) ==
    /\ UNCHANGED <<tmpdir, key_file, mode, result>>
    /\ tf' = "failed"
    /\ pc' = "bsc_yield"

\* an error raised inside temp_file before its yield: the directory scope
\* unwinds, and the error leaves build_ssh_command and ssh_connect, neither
\* of which has yielded yet
TempFileAbort(error) ==
    /\ TemporaryDirectoryCleanup
    /\ tf' = "failed"
    /\ result' = error
    /\ pc' = "done"

TempFileMkdir ==
    /\ pc = "tf_mkdir"
    /\ \/ /\ tmpdir' = TRUE
          /\ pc' = "tf_write"
          /\ UNCHANGED <<tf, result>>
       \/ /\ tf' = "failed"
          /\ result' = "OSError"
          /\ pc' = "done"
          /\ UNCHANGED tmpdir
    /\ UNCHANGED <<inputs, exc, key_file, mode, bsc_key_path, yields, cmd,
                   proc, handed, body, cleanup_kills, body_kills>>

TempFileWrite ==
    /\ pc = "tf_write"
    /\ \/ /\ key_file' = TRUE
          /\ mode' = "default"
          /\ pc' = "tf_chmod"
          /\ UNCHANGED <<tf, tmpdir, result>>
       \/ TempFileAbort("OSError")
    /\ UNCHANGED <<inputs, exc, bsc_key_path, yields, cmd, proc, handed,
                   body, cleanup_kills, body_kills>>

\* the chmod, then `yield full_path`, bound by `as private_key_path`
TempFileChmodLeak ==
    /\ pc = "tf_chmod"
    /\ \/ /\ mode' = IF set_owner_only /\ system # "Windows"
                     THEN "600" ELSE mode
          /\ tf' = "yielded"
          /\ bsc_key_path' = Some(full_path)
          /\ pc' = "bsc_yield"
          /\ UNCHANGED <<tmpdir, key_file, result>>
       \/ /\ set_owner_only /\ system # "Windows"
          /\ tf' = "failed"
          /\ result' = "CalledProcessError"
          /\ pc' = "done"
          /\ UNCHANGED <<tmpdir, key_file, mode, bsc_key_path>>
    /\ UNCHANGED <<inputs, exc, yields, cmd, proc, handed, body,
                   cleanup_kills, body_kills>>

TempFileChmod ==
    /\ pc = "tf_chmod"
    /\ \/ /\ mode' = IF set_owner_only /\ system # "Windows"
                     THEN "600" ELSE mode
          /\ tf' = "yielded"
          /\ bsc_key_path' = Some(full_path)
          /\ pc' = "bsc_yield"
          /\ UNCHANGED <<tmpdir, key_file, result>>
       \/ /\ set_owner_only /\ system # "Windows"
          /\ TempFileAbort("CalledProcessError")
          /\ UNCHANGED bsc_key_path
    /\ UNCHANGED <<inputs, exc, yields, cmd, proc, handed, body,
                   cleanup_kills, body_kills>>

\* the scope of temp_file ends: the generator is resumed (or the error in
\* flight is thrown into it) and the directory scope is left
TempFileExitLeak ==
    /\ pc = "bsc_exit"
    /\ tf = "yielded"
    /\ IF exc = "none" THEN TemporaryDirectoryCleanup
                       ELSE TemporaryDirectoryLeak
    /\ tf' = "exited"
    /\ pc' = "bsc_resume"
    /\ UNCHANGED <<inputs, exc, result, bsc_key_path, yields, cmd, proc,
                   handed, body, cleanup_kills, body_kills>>

TempFileExit ==
    /\ pc = "bsc_exit"
    /\ tf = "yielded"
    /\ TemporaryDirectoryCleanup
    /\ tf' = "exited"
    /\ pc' = "bsc_resume"
    /\ UNCHANGED <<inputs, exc, result, bsc_key_path, yields, cmd, proc,
                   handed, body, cleanup_kills, body_kills>>

----------------------------------------------------------------------------
(* build_ssh_command *)

MutuallyExclusiveTruthy == TruthyStr(private_key) /\ TruthyStr(private_key_path)

MutuallyExclusive == private_key # None /\ private_key_path # None

\* entering the scope: the check of the two key parameters, then the branch
\* on private_key
BuildSshCommandEnter ==
    /\ pc = "start"
    /\ IF MutuallyExclusive
       THEN /\ result' = "UsageError"
            /\ pc' = "done"
            /\ UNCHANGED tf
       ELSE IF private_key # None
       THEN /\ tf' = "setup"
            /\ pc' = "tf_mkdir"
            /\ UNCHANGED result
       ELSE /\ pc' = "bsc_yield"
            /\ UNCHANGED <<tf, result>>
    /\ UNCHANGED <<inputs, exc, tmpdir, key_file, mode, bsc_key_path, yields,
                   cmd, proc, handed, body, cleanup_kills, body_kills>>

\* the first yield of the generator (inside the temp_file scope when key
\* content was given, the last statement otherwise); ssh_connect binds it
BuildSshCommandYield ==
    /\ pc = "bsc_yield"
    /\ cmd' = build_ssh_command_args(ip, bsc_key_path, proxy, port, command,
                                     log_level)
    /\ yields' = yields + 1
    /\ pc' = "launch"
    /\ UNCHANGED <<inputs, exc, result, files, bsc_key_path, proc, handed,
                   body, cleanup_kills, body_kills>>

\* (variant: the generator catches the error thrown in and runs on to the
\* final yield, so the context manager reports RuntimeError instead)
BuildSshCommandExitMasking ==
    /\ \/ pc = "bsc_exit" /\ tf # "yielded"
       \/ pc = "bsc_resume"
    /\ IF private_key # None
       THEN /\ yields' = yields + 1
            /\ result' = "RuntimeError"
       ELSE /\ result' = IF exc # "none" THEN exc ELSE "ok"
            /\ UNCHANGED yields
    /\ exc' = "none"
    /\ pc' = "done"
    /\ UNCHANGED <<inputs, files, bsc_key_path, cmd, proc, handed, body,
                   cleanup_kills, body_kills>>

\* the scope of build_ssh_command ends.  With an error in flight the error
\* leaves the generator.  Without one, a generator that yielded inside the
\* temp_file scope runs on to the final yield statement and yields again,
\* which the context manager reports as RuntimeError; a generator that
\* yielded at the final statement ends.
BuildSshCommandExit ==
    /\ \/ pc = "bsc_exit" /\ tf # "yielded"
       \/ pc = "bsc_resume"
    /\ IF exc # "none"
       THEN /\ result' = exc
            /\ UNCHANGED yields
       ELSE IF private_key # None
       THEN /\ yields' = yields + 1
            /\ result' = "RuntimeError"
       ELSE /\ result' = "ok"
            /\ UNCHANGED yields
    /\ exc' = "none"
    /\ pc' = "done"
    /\ UNCHANGED <<inputs, files, bsc_key_path, cmd, proc, handed, body,
                   cleanup_kills, body_kills>>

----------------------------------------------------------------------------
(* ssh_connect *)

PopenValue == [kind |-> "Popen", value |-> 0]
IntValue(n) == [kind |-> "int", value |-> n]

\* call=True: subprocess.call(cmd) starts the child (or fails to)
SshCall ==
    /\ pc = "launch"
    /\ call
    /\ \/ /\ child' = "running"
          /\ child_cmd' = cmd
          /\ pc' = "call_wait"
          /\ UNCHANGED exc
       \/ /\ exc' = "FileNotFoundError"
          /\ pc' = "bsc_exit"
          /\ UNCHANGED <<child, child_cmd>>
    /\ UNCHANGED <<inputs, result, files, bsc_key_path, yields, cmd,
                   exit_status, returncode, pipes, handed, body,
                   cleanup_kills, body_kills>>

\* subprocess.call returns once the child has exited; its exit code is
\* yielded to the caller's body
CallReturnEarly ==
    /\ pc = "call_wait"
    /\ returncode' = exit_status
    /\ handed' = IntValue(IF exit_status = None THEN 0 ELSE exit_status[1])
    /\ body' = "running"
    /\ pc' = "body"
    /\ UNCHANGED <<inputs, exc, result, files, bsc_key_path, yields, cmd,
                   child, child_cmd, exit_status, pipes, cleanup_kills,
                   body_kills>>

CallReturn ==
    /\ pc = "call_wait"
    /\ child = "exited"
    /\ returncode' = exit_status
    /\ handed' = IntValue(exit_status[1])
    /\ body' = "running"
    /\ pc' = "body"
    /\ UNCHANGED <<inputs, exc, result, files, bsc_key_path, yields, cmd,
                   child, child_cmd, exit_status, pipes, cleanup_kills,
                   body_kills>>

\* call=False: subprocess.Popen(cmd, stdin=PIPE, stdout=PIPE, stderr=PIPE)
\* starts the child (or fails to) and the handle is yielded
SshPopen ==
    /\ pc = "launch"
    /\ ~call
    /\ \/ /\ child' = "running"
          /\ child_cmd' = cmd
          /\ pipes' = "open"
          /\ handed' = PopenValue
          /\ body' = "running"
          /\ pc' = "body"
          /\ UNCHANGED exc
       \/ /\ exc' = "FileNotFoundError"
          /\ pc' = "bsc_exit"
          /\ UNCHANGED <<child, child_cmd, pipes, handed, body>>
    /\ UNCHANGED <<inputs, result, files, bsc_key_path, yields, cmd,
                   exit_status, returncode, cleanup_kills, body_kills>>

\* the ssh process ends by itself
ChildExit ==
    /\ child = "running"
    /\ \E code \in ExitCodes : exit_status' = Some(code)
    /\ child' = "exited"
    /\ UNCHANGED <<inputs, pc, exc, result, files, bsc_key_path, yields, cmd,
                   child_cmd, returncode, pipes, handed, body, cleanup_kills,
                   body_kills>>

\* the caller's body stops the child itself
BodyKill ==
    /\ pc = "body"
    /\ handed.kind = "Popen"
    /\ body_kills < MaxBodyKills
    /\ LET k == Kill(child, exit_status, returncode)
       IN  /\ child' = k.child
           /\ exit_status' = k.exit_status
           /\ returncode' = k.returncode
           /\ IF k.error = "none"
              THEN UNCHANGED <<pc, exc, body>>
              ELSE /\ exc' = k.error
                   /\ body' = "raised"
                   /\ pc' = "popen_exit"
    /\ body_kills' = body_kills + 1
    /\ UNCHANGED <<inputs, result, files, bsc_key_path, yields, cmd,
                   child_cmd, pipes, handed, cleanup_kills>>

\* the caller's body finishes: the generator of ssh_connect is resumed
BodyReturn ==
    /\ pc = "body"
    /\ body' = "returned"
    /\ pc' = IF call THEN "bsc_exit" ELSE "kill"
    /\ UNCHANGED <<inputs, exc, result, files, bsc_key_path, yields, cmd,
                   proc, handed, cleanup_kills, body_kills>>

\* the caller's body raises: the error is thrown into the generator at its
\* yield, so the statement after the yield is skipped
BodyRaise ==
    /\ pc = "body"
    /\ \E e \in BodyExceptions : exc' = e
    /\ body' = "raised"
    /\ pc' = IF call THEN "bsc_exit" ELSE "popen_exit"
    /\ UNCHANGED <<inputs, result, files, bsc_key_path, yields, cmd, proc,
                   handed, cleanup_kills, body_kills>>

\* ssh.kill() after the yield
CleanupKill ==
    /\ pc = "kill"
    /\ LET k == Kill(child, exit_status, returncode)
       IN  /\ child' = k.child
           /\ exit_status' = k.exit_status
           /\ returncode' = k.returncode
           /\ exc' = k.error
    /\ cleanup_kills' = cleanup_kills + 1
    /\ pc' = "popen_exit"
    /\ UNCHANGED <<inputs, result, files, bsc_key_path, yields, cmd,
                   child_cmd, pipes, handed, body, body_kills>>

\* Popen.__exit__: the pipes are closed ...
PopenClose ==
    /\ pc = "popen_exit"
    /\ pipes' = "closed"
    /\ pc' = "popen_wait"
    /\ UNCHANGED <<inputs, exc, result, files, bsc_key_path, yields, cmd,
                   child, child_cmd, exit_status, returncode, handed, body,
                   cleanup_kills, body_kills>>

\* ... and the child is waited for: until it has exited, or, when the scope
\* is left by KeyboardInterrupt, for a short time only
PopenWait ==
    /\ pc = "popen_wait"
    /\ IF child = "exited"
       THEN returncode' = exit_status
       ELSE /\ exc = "KeyboardInterrupt"
            /\ UNCHANGED returncode
    /\ pc' = "bsc_exit"
    /\ UNCHANGED <<inputs, exc, result, files, bsc_key_path, yields, cmd,
                   child, child_cmd, exit_status, pipes, handed, body,
                   cleanup_kills, body_kills>>

----------------------------------------------------------------------------

Next ==
    \/ BuildSshCommandEnter
    \/ TempFileMkdir
    \/ TempFileWrite
    \/ TempFileChmod
    \/ BuildSshCommandYield
    \/ SshCall
    \/ CallReturn
    \/ SshPopen
    \/ ChildExit
    \/ BodyKill
    \/ BodyReturn
    \/ BodyRaise
    \/ CleanupKill
    \/ PopenClose
    \/ PopenWait
    \/ TempFileExit
    \/ BuildSshCommandExit

Spec == Init /\ [][Next]_vars

\* the steps of the program itself: everything but the child ending by
\* itself, which nothing in the program brings about
ProgramStep ==
    \/ BuildSshCommandEnter
    \/ TempFileMkdir
    \/ TempFileWrite
    \/ TempFileChmod
    \/ BuildSshCommandYield
    \/ SshCall
    \/ CallReturn
    \/ SshPopen
    \/ BodyKill
    \/ BodyReturn
    \/ BodyRaise
    \/ CleanupKill
    \/ PopenClose
    \/ PopenWait
    \/ TempFileExit
    \/ BuildSshCommandExit

\* the single thread keeps running while it has a step to take; the child
\* is under no obligation to end
FairSpec == Init /\ [][Next]_vars /\ WF_vars(ProgramStep)

----------------------------------------------------------------------------
(* Properties *)

Managed == ~call
ScopeExited == pc = "done"
Spawned == child # "none"

\* C1: in managed mode, once the child has been spawned, ssh_connect has
\* called kill on it by the time the scope has exited, whether the body
\* returned or raised.
C1_KillOnEveryExit ==
    (ScopeExited /\ Managed /\ Spawned) => cleanup_kills >= 1

\* C2: when key content was passed, neither the temporary key file nor its
\* directory exists once the scope of ssh_connect has exited, on any path.
C2_KeyGoneAfterScope ==
    (ScopeExited /\ private_key # None) => (~key_file /\ ~tmpdir)

C2_Witness ==
    /\ ScopeExited
    /\ private_key = Some("SECRET")
    /\ tf = "exited"
    /\ body = "raised"
    /\ Managed

\* C3: when both private_key and private_key_path are supplied, the scope
\* ends with the usage error as its first step, and no directory, file,
\* vector, child process or body run ever exists in that run.
C3_UsageError ==
    (private_key # None /\ private_key_path # None) =>
        /\ pc \in {"start", "done"}
        /\ ScopeExited => result = "UsageError"
        /\ tf = "unused" /\ ~tmpdir /\ ~key_file
        /\ yields = 0 /\ cmd = <<>>
        /\ child = "none"
        /\ body = "notrun"

C3_Witness ==
    /\ result = "UsageError"
    /\ private_key = Some("")
    /\ private_key_path = Some("/home/me/key")

\* C4: in managed mode the child is not running in any state after the
\* scope has exited.
C4_NotRunningAfterScope ==
    (ScopeExited /\ Managed) => child # "running"

\* C5: build_ssh_command yields one vector per scope, and a scope whose
\* body returned normally exits without an error.
C5_ExactlyOneYield ==
    /\ yields <= 1
    /\ (ScopeExited /\ body = "returned") => (yields = 1 /\ result = "ok")

\* C6: the temporary directory and the file in it exist as long as the
\* temp_file scope is open after its yield, and neither exists once the
\* scope has ended, by return, by an error in the body or by a failed step.
C6_TempFileLifetime ==
    /\ tf = "yielded" => (tmpdir /\ key_file)
    /\ tf \in {"exited", "failed"} => (~tmpdir /\ ~key_file)

C6_Witness ==
    /\ tf = "exited"
    /\ body = "raised"
    /\ exc = "Exception"

\* C7: when a step of temp_file has failed, the scope has ended with that
\* error, no path and no vector were yielded, the body has not run and no
\* child was spawned.
C7_FailureBeforeYield ==
    tf = "failed" =>
        /\ ScopeExited
        /\ result \in {"OSError", "CalledProcessError"}
        /\ bsc_key_path = private_key_path
        /\ yields = 0 /\ cmd = <<>>
        /\ body = "notrun"
        /\ child = "none"

C7_Witness ==
    /\ tf = "failed"
    /\ result = "CalledProcessError"

\* C8: in blocking mode the body runs only after the child, started with
\* the assembled vector, has exited; the value handed over is its exit
\* code, there are no pipes, and the child is not running in or after the
\* body.
C8_BlockingCall ==
    (call /\ body # "notrun") =>
        /\ child = "exited"
        /\ child_cmd = cmd
        /\ exit_status # None
        /\ returncode = exit_status
        /\ handed = IntValue(exit_status[1])
        /\ pipes = "none"

C8_Witness ==
    /\ call
    /\ body = "running"
    /\ handed = IntValue(1)

\* C9: in managed mode the kill on scope exit raises nothing, also when
\* the child had exited by itself or was killed by the body before, and
\* the scope does not end with an error of the termination.
C9_CleanupKillQuiet ==
    cleanup_kills >= 1 =>
        /\ exc = "none"
        /\ result # "ProcessLookupError"

\* the child exited by itself (its status is not that of the signal) and
\* was then killed by the body and by the cleanup
C9_Witness ==
    /\ cleanup_kills = 1
    /\ body_kills = 1
    /\ exit_status = Some(0)
    /\ ScopeExited
    /\ result = "ok"

\* C10: the vector, element by element.
PortText(n) == CASE n = 0 -> "0" [] n = 22 -> "22" [] n = 2222 -> "2222"
Given(o) == o # None
Fixed == <<"-o", "UserKnownHostsFile=/dev/null",
           "-o", "StrictHostKeyChecking=no">>
Verbose == IF log_level <= DEBUG THEN <<"-v">> ELSE <<>>

\* as claimed: -i before the -o options, an option present when given
C10_VectorAsClaimed ==
    cmd # <<>> =>
        cmd = <<"ssh", "onefuzz@" \o ip>>
              \o (IF Given(bsc_key_path) THEN <<"-i", bsc_key_path[1]>>
                                         ELSE <<>>)
              \o Fixed
              \o (IF Given(proxy) THEN <<"-L", proxy[1]>> ELSE <<>>)
              \o (IF Given(port) THEN <<"-p", PortText(port[1])>> ELSE <<>>)
              \o Verbose
              \o (IF Given(command) THEN <<command[1]>> ELSE <<>>)

\* as amended: -i after the -o options, an option present when its value
\* is not None, not the empty string and not 0
C10_Vector ==
    cmd # <<>> =>
        cmd = <<"ssh", "onefuzz@" \o ip>>
              \o Fixed
              \o (IF Given(bsc_key_path) /\ bsc_key_path[1] # ""
                  THEN <<"-i", bsc_key_path[1]>> ELSE <<>>)
              \o (IF Given(proxy) /\ proxy[1] # ""
                  THEN <<"-L", proxy[1]>> ELSE <<>>)
              \o (IF Given(port) /\ port[1] # 0
                  THEN <<"-p", PortText(port[1])>> ELSE <<>>)
              \o Verbose
              \o (IF Given(command) /\ command[1] # ""
                  THEN <<command[1]>> ELSE <<>>)

C10_Witness ==
    /\ Len(cmd) = 14
    /\ cmd[7] = "-i"
    /\ cmd[8] = full_path
    /\ cmd[12] = "2222"


\* C11: the vector starts with ssh and holds the user-host string, the pair
\* -o UserKnownHostsFile=/dev/null and the pair -o StrictHostKeyChecking=no,
\* each once and in that order, whatever optional elements are present.
Positions(seq, x) == {i \in DOMAIN seq : seq[i] = x}
PairPositions(seq, x, y) ==
    {i \in DOMAIN seq : i < Len(seq) /\ seq[i] = x /\ seq[i + 1] = y}
UserHost == "onefuzz@" \o ip

C11_FixedElements ==
    cmd # <<>> =>
        /\ cmd[1] = "ssh"
        /\ Cardinality(Positions(cmd, UserHost)) = 1
        /\ Cardinality(PairPositions(cmd, "-o",
                                     "UserKnownHostsFile=/dev/null")) = 1
        /\ Cardinality(PairPositions(cmd, "-o",
                                     "StrictHostKeyChecking=no")) = 1
        /\ \A h \in Positions(cmd, UserHost) :
           \A u \in PairPositions(cmd, "-o", "UserKnownHostsFile=/dev/null") :
           \A k \in PairPositions(cmd, "-o", "StrictHostKeyChecking=no") :
               1 < h /\ h < u /\ u + 1 < k

\* all optional elements present
C11_Witness ==
    /\ Len(cmd) = 14
    /\ Positions(cmd, UserHost) = {2}
    /\ PairPositions(cmd, "-o", "StrictHostKeyChecking=no") = {5}
    /\ Positions(cmd, "-L") = {9}

\* C12: -v is in the vector exactly when the effective log level is at or
\* below debug; it then follows every -L and -p option and their values,
\* and precedes the remote command, which is the last element.
C12_VerboseFlag ==
    cmd # <<>> =>
        /\ (Positions(cmd, "-v") # {}) <=> (log_level <= DEBUG)
        /\ \A v \in Positions(cmd, "-v") :
              /\ \A i \in Positions(cmd, "-L") \cup Positions(cmd, "-p") :
                    i + 1 < v
              /\ IF TruthyStr(command)
                 THEN v = Len(cmd) - 1 /\ cmd[Len(cmd)] = command[1]
                 ELSE v = Len(cmd)

\* the level is exactly debug, and -L, -p and a command are present
C12_Witness ==
    /\ Len(cmd) = 12
    /\ log_level = DEBUG
    /\ Positions(cmd, "-v") = {11}
    /\ Positions(cmd, "-L") = {7}
    /\ Positions(cmd, "-p") = {9}
    /\ cmd[12] = "ls"


\* C13: with key content, whenever a child is running the key file exists,
\* is owner-only on a non-Windows platform, and its path follows -i in the
\* vector the child was started with.
C13_KeyOutlivesChild ==
    (private_key # None /\ child = "running") =>
        /\ key_file
        /\ system # "Windows" => mode = "600"
        /\ PairPositions(child_cmd, "-i", full_path) # {}

\* C14: in managed mode, once the body has returned or raised, the scope
\* of ssh_connect eventually has exited, whatever the child does.
C14_ExitCompletes ==
    (Managed /\ body \in {"returned", "raised"}) ~> ScopeExited

\* C15: when the spawn has failed (a vector was handed over, the launch is
\* past and there is no child), the error in flight and then the result of
\* the scope is the spawn error, the body has not run, and at the end no
\* key file or directory is left.
SpawnFailed ==
    /\ pc \in {"bsc_exit", "bsc_resume", "done"}
    /\ cmd # <<>>
    /\ child = "none"

C15_SpawnError ==
    SpawnFailed =>
        /\ body = "notrun"
        /\ handed = NoValue
        /\ ~ScopeExited => exc = "FileNotFoundError"
        /\ ScopeExited => /\ result = "FileNotFoundError"
                          /\ ~key_file
                          /\ ~tmpdir

\* the spawn failed after a key file had been written
C15_Witness ==
    /\ SpawnFailed
    /\ ScopeExited
    /\ private_key = Some("SECRET")
    /\ tf = "exited"
    /\ Managed

====
